---- MODULE Spec2Model ----
(***************************************************************************)
(* The interactive client of src/src/websockets/__main__.py: the main      *)
(* thread (connect, input loop, termination path, join) and the receiver   *)
(* thread (print_incoming_messages), with the connection, the user and the *)
(* remote peer as their environment.                                       *)
(*                                                                         *)
(* The connection (websockets.sync.client) and Close (websockets.frames)   *)
(* are imported by __main__.py but their code is not part of src/: their   *)
(* behaviour is taken from spec.md sections 3 and 6.                       *)
(***************************************************************************)
EXTENDS Integers, Sequences, FiniteSets, TLC

\* ---------------------------------------------------------------- bounds
\* Lines the user submits in one session.
MaxLines == 2
\* Messages the remote sends in one session.
MaxMessages == 2
\* Times the user presses ^C in one session.
MaxUserInterrupts == 1
\* The terminal's columns and rows, and the calls of print_during_input made
\* on it.
TermWidth == 4
TermHeight == 3
MaxCalls == 2

\* ---------------------------------------------------------- input domains
Uri == "ws://h"
\* The lines a user may submit; the empty line is one of them.
Lines == {"", "hello"}
\* A message of the incoming sequence: str or bytes.
TextMessage(s) == [isStr |-> TRUE, text |-> s, data |-> <<>>]
BinaryMessage(b) == [isStr |-> FALSE, text |-> "", data |-> b]
Messages == {TextMessage("world"), BinaryMessage(<<10, 255>>)}
\* The (code, reason) pairs a remote close may carry.
RemoteCloses == {[code |-> 1000, reason |-> "bye"], [code |-> 1001, reason |-> ""]}

\* The inputs enumerated: an element differs from the one before it, so that
\* a sequence shows every reordering and every duplicate of its elements.
DiffersFromLast(x, seq) == IF seq = <<>> THEN TRUE ELSE x # seq[Len(seq)]

\* Python's None and a value that is not None.
None == <<>>
Some(x) == <<x>>

\* ------------------------------------------------------------ pure helpers
HexDigits == <<"0", "1", "2", "3", "4", "5", "6", "7",
               "8", "9", "a", "b", "c", "d", "e", "f">>
HexByte(b) == HexDigits[(b \div 16) + 1] \o HexDigits[(b % 16) + 1]
RECURSIVE hex(_)
\* bytes.hex(): two lowercase hex digits per byte.
hex(data) == IF data = <<>> THEN "" ELSE HexByte(Head(data)) \o hex(Tail(data))

\* One write to the terminal is a sequence of tokens: control sequences and text.
print_during_input(string) ==
    <<"ESC 7", "LF", "ESC [A", "ESC [L", string, "LF", "ESC 8", "ESC [B">>

print_over_input(string) ==
    <<"CR", "ESC [K", string, "LF">>

\* print(string): the text and the line end.
print(string) == <<string, "LF">>

\* What the receiver loop renders for one message (lines 86-89).
Rendering(m) ==
    IF m.isStr THEN print_during_input("< " \o m.text)
    ELSE print_during_input("< (binary) " \o hex(m.data))

\* str(Close(code, reason)): "<code> <reason>" (spec.md section 6).
CloseStr(code, reason) == ToString(code) \o " " \o reason

\* The final status line (lines 156-157).
StatusLine(code, reason) ==
    print_over_input("Connection closed: " \o CloseStr(code, reason) \o ".")

RECURSIVE MapRendering(_)
MapRendering(ms) ==
    IF ms = <<>> THEN <<>> ELSE <<Rendering(Head(ms))>> \o MapRendering(Tail(ms))

IsPrefix(s, t) == Len(s) <= Len(t) /\ SubSeq(t, 1, Len(s)) = s

\* ------------------------------------------------------------------ state
VARIABLES
    mainPc,         \* position of the main thread
    recvPc,         \* position of the receiver thread
    mainExc,        \* the exception the main thread last raised, or "none"
    sigPending,     \* a SIGINT was delivered and its handler has not run yet
    stop,           \* threading.Event stop
    message,        \* main's local `message` (the line just read)
    recvMessage,    \* the receiver's loop variable `message`
    connState,      \* "NONE", "OPEN", "CLOSING" (close frame sent) or "CLOSED"
    close_code,     \* websocket.close_code: None or Some(code)
    close_reason,   \* websocket.close_reason: None or Some(reason)
    incoming,       \* messages received and not yet taken by the iterator
    sent,           \* messages send() has transmitted, in order
    stdout,         \* the writes to sys.stdout, in order
    stderr,         \* the writes to standard error, in order
    exitCode,       \* None while running, Some(code) once the process exits
    \* history variables (never read by an action's guard)
    linesRead,      \* the lines input() has returned, in order
    arrived,        \* the messages the remote has sent, in order
    closedBy,       \* "none", "local", "remote" or "failure"
    remoteClose,    \* None or Some([code, reason]) of the remote's close
    closeCalls,     \* calls of websocket.close() by the main thread
    closeFoundOpen, \* a close() call found the connection open
    stopSets,       \* calls of stop.set()
    kills,          \* os.kill() calls of the receiver thread
    killedWithStop, \* os.kill() calls made while stop was already set
    userInterrupts, \* ^C presses of the user
    eofRead,        \* input() has raised EOFError
    sendFailures,   \* send() calls that raised
    unsent,         \* why the last line read was not sent, or "none"
    \* the terminal that sys.stdout is written to
    term,           \* its rows of cells, its cursor and its saved cursor
    termHist        \* history: the input line and cursor column when the calls
                    \* began, and the texts passed to print_during_input

threadVars == <<mainPc, recvPc, mainExc, sigPending, stop, message, recvMessage>>
connVars == <<connState, close_code, close_reason, incoming, sent>>
ioVars == <<stdout, stderr, exitCode>>
histVars == <<linesRead, arrived, closedBy, remoteClose, closeCalls,
              closeFoundOpen, stopSets, kills, killedWithStop, userInterrupts,
              eofRead, sendFailures, unsent>>
termVars == <<term, termHist>>
programVars == <<threadVars, connVars, ioVars, histVars>>
vars == <<threadVars, connVars, ioVars, histVars, termVars>>

\* Inside `try:` (lines 146-150).
InTry == mainPc \in {"input", "send"}
\* Inside the `except` clause (lines 151-157).
InHandler ==
    mainPc \in {"stop_set", "close", "closing", "assert", "print", "flush"}
\* The session: from the start of the input loop to main's exit.
InSession == InTry \/ InHandler \/ mainPc = "join"

ProgramInit ==
    /\ mainPc = "connect"
    /\ recvPc = "not_started"
    /\ mainExc = "none"
    /\ sigPending = FALSE
    /\ stop = FALSE
    /\ message = ""
    /\ recvMessage = TextMessage("")
    /\ connState = "NONE"
    /\ close_code = None
    /\ close_reason = None
    /\ incoming = <<>>
    /\ sent = <<>>
    /\ stdout = <<>>
    /\ stderr = <<>>
    /\ exitCode = None
    /\ linesRead = <<>>
    /\ arrived = <<>>
    /\ closedBy = "none"
    /\ remoteClose = None
    /\ closeCalls = 0
    /\ closeFoundOpen = FALSE
    /\ stopSets = 0
    /\ kills = 0
    /\ killedWithStop = 0
    /\ userInterrupts = 0
    /\ eofRead = FALSE
    /\ sendFailures = 0
    /\ unsent = "none"

\* ------------------------------------------------------------------ terminal
\* A row of blank cells, and a row that holds `chars` from its first cell.
BlankRow == [i \in 1..TermWidth |-> " "]
PadRow(chars) == [i \in 1..TermWidth |-> IF i <= Len(chars) THEN chars[i] ELSE " "]

\* The characters of the texts that are written to the terminal.
CharsOf(string) ==
    CASE string = "<a" -> <<"<", "a">>
      [] string = "<a\nb" -> <<"<", "a", "\n", "b">>
      [] string = "<abcd" -> <<"<", "a", "b", "c", "d">>
\* The texts print_during_input is called with: one that fits in a row, one
\* that holds a line feed, one that is longer than a row.
TermTexts == {"<a", "<a\nb", "<abcd"}
\* The unsubmitted input lines: the prompt and what was typed after it.
TermLines == {<<">", " ">>, <<">", " ", "p">>, <<">", " ", "p", "q">>}

\* LINE FEED ("Add a new line"): the cursor goes to the start of the next row
\* (the terminal driver sends CR LF); on the last row the screen scrolls up.
LineFeed(t) ==
    IF t.row = TermHeight
    THEN [t EXCEPT !.rows = [r \in 1..TermHeight |->
                                IF r < TermHeight THEN t.rows[r + 1] ELSE BlankRow],
                   !.col = 1]
    ELSE [t EXCEPT !.row = t.row + 1, !.col = 1]

\* A printable character is put in the cursor's cell; past the last column
\* the cursor first wraps to the next row.
PutChar(t, ch) ==
    LET u == IF t.col > TermWidth THEN LineFeed(t) ELSE t
    IN  [u EXCEPT !.rows[u.row][u.col] = ch, !.col = u.col + 1]

RECURSIVE WriteChars(_, _)
WriteChars(t, chars) ==
    IF chars = <<>> THEN t
    ELSE WriteChars(IF Head(chars) = "\n" THEN LineFeed(t) ELSE PutChar(t, Head(chars)),
                    Tail(chars))

\* The terminal's reaction to one token of a write (the comments of lines
\* 54-67 and 74-78 name the effect of each control sequence).
TermToken(t, tok) ==
    CASE tok = "ESC 7" -> [t EXCEPT !.saved = <<t.row, t.col>>]
      [] tok = "ESC 8" -> [t EXCEPT !.row = t.saved[1], !.col = t.saved[2]]
      [] tok = "LF" -> LineFeed(t)
      [] tok = "CR" -> [t EXCEPT !.col = 1]
      [] tok = "ESC [A" -> [t EXCEPT !.row = IF t.row > 1 THEN t.row - 1 ELSE 1]
      [] tok = "ESC [B" ->
            [t EXCEPT !.row = IF t.row < TermHeight THEN t.row + 1 ELSE TermHeight]
      [] tok = "ESC [L" ->
            [t EXCEPT !.rows = [r \in 1..TermHeight |->
                                   IF r < t.row THEN t.rows[r]
                                   ELSE IF r = t.row THEN BlankRow
                                   ELSE t.rows[r - 1]]]
      [] tok = "ESC [K" ->
            [t EXCEPT !.rows[t.row] = [i \in 1..TermWidth |->
                                          IF i < t.col THEN t.rows[t.row][i] ELSE " "]]
      [] OTHER -> WriteChars(t, CharsOf(tok))

RECURSIVE TermWrite(_, _)
\* The terminal after one write, token by token.
TermWrite(t, write) ==
    IF write = <<>> THEN t ELSE TermWrite(TermToken(t, Head(write)), Tail(write))

\* In the session the terminal is not looked at: it stays as it is.
TermIdle ==
    /\ term = [rows |-> [r \in 1..TermHeight |-> BlankRow], row |-> 1, col |-> 1,
               saved |-> <<1, 1>>]
    /\ termHist = [line |-> <<>>, col |-> 1, texts |-> <<>>]

Init == ProgramInit /\ TermIdle

\* ------------------------------------------------------------ main thread
\* The main thread is at `pc` and no signal handler is waiting to run: CPython
\* runs a pending handler in the main thread before its next instruction.
MainAt(pc) == mainPc = pc /\ ~sigPending

\* Lines 131-132, 136-137: connect() succeeds.
main_connect_ok ==
    /\ MainAt("connect")
    /\ connState' = "OPEN"
    /\ stdout' = Append(stdout, print("Connected to " \o Uri \o "."))
    /\ mainPc' = "start_thread"
    /\ UNCHANGED <<recvPc, mainExc, sigPending, stop, message, recvMessage>>
    /\ UNCHANGED <<close_code, close_reason, incoming, sent, stderr, exitCode>>
    /\ UNCHANGED histVars
    /\ UNCHANGED termVars

\* Lines 131-135: connect() raises; print() writes to standard output.
main_connect_fails ==
    /\ MainAt("connect")
    /\ stdout' = Append(stdout, print("Failed to connect to " \o Uri \o ": error."))
    /\ exitCode' = Some(1)
    /\ mainPc' = "exited"
    /\ UNCHANGED <<recvPc, mainExc, sigPending, stop, message, recvMessage>>
    /\ UNCHANGED <<connVars, stderr, histVars>>
    /\ UNCHANGED termVars

\* Lines 139-143: stop = Event(); thread.start().
main_thread_start ==
    /\ MainAt("start_thread")
    /\ stop' = FALSE
    /\ recvPc' = "iter"
    /\ mainPc' = "input"
    /\ UNCHANGED <<mainExc, sigPending, message, recvMessage>>
    /\ UNCHANGED <<connVars, ioVars, histVars>>
    /\ UNCHANGED termVars

\* Line 149: input("> ") returns the line the user submitted. (The prompt and
\* the echo of the line are written by the terminal's line editor, not
\* through sys.stdout.)
main_input(line) ==
    /\ MainAt("input")
    /\ Len(linesRead) < MaxLines
    /\ DiffersFromLast(line, linesRead)
    /\ message' = line
    /\ linesRead' = Append(linesRead, line)
    /\ mainPc' = "send"
    /\ UNCHANGED <<recvPc, mainExc, sigPending, stop, recvMessage>>
    /\ UNCHANGED <<connVars, ioVars>>
    /\ UNCHANGED <<arrived, closedBy, remoteClose, closeCalls,
                   closeFoundOpen, stopSets, kills,
                   killedWithStop, userInterrupts, eofRead, sendFailures, unsent>>
    /\ UNCHANGED termVars

\* Line 149: input() raises EOFError (^D); line 151 catches it.
main_input_eof ==
    /\ MainAt("input")
    /\ mainExc' = "EOFError"
    /\ eofRead' = TRUE
    /\ mainPc' = "stop_set"
    /\ UNCHANGED <<recvPc, sigPending, stop, message, recvMessage>>
    /\ UNCHANGED <<connVars, ioVars>>
    /\ UNCHANGED <<linesRead, arrived, closedBy, remoteClose, closeCalls,
                   closeFoundOpen, stopSets,
                   kills, killedWithStop, userInterrupts, sendFailures, unsent>>
    /\ UNCHANGED termVars

\* Mutant of main_send: an empty line is skipped instead of sent.
main_send_skips_empty ==
    /\ MainAt("send")
    /\ IF connState = "OPEN"
       THEN /\ sent' = IF message = "" THEN sent ELSE Append(sent, message)
            /\ mainPc' = "input"
            /\ UNCHANGED <<mainExc, sendFailures, unsent>>
       ELSE /\ mainExc' = "ConnectionClosed"
            /\ mainPc' = "crashed"
            /\ sendFailures' = sendFailures + 1
            /\ unsent' = "ConnectionClosed"
            /\ UNCHANGED sent
    /\ UNCHANGED <<recvPc, sigPending, stop, message, recvMessage>>
    /\ UNCHANGED <<connState, close_code, close_reason, incoming, ioVars>>
    /\ UNCHANGED <<linesRead, arrived, closedBy, remoteClose, closeCalls,
                   closeFoundOpen, stopSets, kills, killedWithStop,
                   userInterrupts, eofRead>>
    /\ UNCHANGED termVars

\* Line 150: websocket.send(message). On a connection that is no longer open
\* send() raises ConnectionClosed, which line 151 does not catch.
main_send ==
    /\ MainAt("send")
    /\ IF connState = "OPEN"
       THEN /\ sent' = Append(sent, message)
            /\ mainPc' = "input"
            /\ UNCHANGED <<mainExc, sendFailures, unsent>>
       ELSE /\ mainExc' = "ConnectionClosed"
            /\ mainPc' = "crashed"
            /\ sendFailures' = sendFailures + 1
            /\ unsent' = "ConnectionClosed"
            /\ UNCHANGED sent
    /\ UNCHANGED <<recvPc, sigPending, stop, message, recvMessage>>
    /\ UNCHANGED <<connState, close_code, close_reason, incoming, ioVars>>
    /\ UNCHANGED <<linesRead, arrived, closedBy, remoteClose, closeCalls,
                   closeFoundOpen, stopSets,
                   kills, killedWithStop, userInterrupts, eofRead>>
    /\ UNCHANGED termVars

\* The SIGINT handler runs in the main thread and raises KeyboardInterrupt
\* where the thread stands: line 151 catches it inside `try` (lines 146-150);
\* anywhere else (lines 152-159) nothing catches it.
main_KeyboardInterrupt ==
    /\ sigPending
    /\ mainPc \notin {"done", "crashed", "exited"}
    /\ sigPending' = FALSE
    /\ mainExc' = "KeyboardInterrupt"
    /\ IF InTry
       THEN /\ mainPc' = "stop_set"
            /\ unsent' = IF mainPc = "send" THEN "KeyboardInterrupt" ELSE unsent
       ELSE /\ mainPc' = "crashed"
            /\ UNCHANGED unsent
    /\ UNCHANGED <<recvPc, stop, message, recvMessage>>
    /\ UNCHANGED <<connVars, ioVars>>
    /\ UNCHANGED <<linesRead, arrived, closedBy, remoteClose, closeCalls,
                   closeFoundOpen, stopSets,
                   kills, killedWithStop, userInterrupts, eofRead, sendFailures>>
    /\ UNCHANGED termVars

\* Mutant of main_stop_set: the handler goes on to close() with the flag unset.
main_stop_set_skipped ==
    /\ MainAt("stop_set")
    /\ mainPc' = "close"
    /\ UNCHANGED <<recvPc, mainExc, sigPending, stop, message, recvMessage>>
    /\ UNCHANGED <<connVars, ioVars, histVars>>
    /\ UNCHANGED termVars

\* Mutant of main_stop_set: the handler sets the flag and reads the status
\* without calling close().
main_stop_set_no_close ==
    /\ MainAt("stop_set")
    /\ stop' = TRUE
    /\ stopSets' = stopSets + 1
    /\ mainPc' = "assert"
    /\ UNCHANGED <<recvPc, mainExc, sigPending, message, recvMessage>>
    /\ UNCHANGED <<connVars, ioVars>>
    /\ UNCHANGED <<linesRead, arrived, closedBy, remoteClose, closeCalls,
                   closeFoundOpen, kills, killedWithStop, userInterrupts,
                   eofRead, sendFailures, unsent>>
    /\ UNCHANGED termVars

\* Line 152: stop.set().
main_stop_set ==
    /\ MainAt("stop_set")
    /\ stop' = TRUE
    /\ stopSets' = stopSets + 1
    /\ mainPc' = "close"
    /\ UNCHANGED <<recvPc, mainExc, sigPending, message, recvMessage>>
    /\ UNCHANGED <<connVars, ioVars>>
    /\ UNCHANGED <<linesRead, arrived, closedBy, remoteClose, closeCalls, closeFoundOpen,
                   kills, killedWithStop, userInterrupts, eofRead, sendFailures, unsent>>
    /\ UNCHANGED termVars

\* Line 153: websocket.close() is called: on an open connection it starts the
\* closing handshake, on any other it changes nothing; then it blocks.
main_close_call ==
    /\ MainAt("close")
    /\ closeCalls' = closeCalls + 1
    /\ closeFoundOpen' = (closeFoundOpen \/ connState = "OPEN")
    /\ connState' = IF connState = "OPEN" THEN "CLOSING" ELSE connState
    /\ mainPc' = "closing"
    /\ UNCHANGED <<recvPc, mainExc, sigPending, stop, message, recvMessage>>
    /\ UNCHANGED <<close_code, close_reason, incoming, sent, ioVars>>
    /\ UNCHANGED <<linesRead, arrived, closedBy, remoteClose, stopSets,
                   kills, killedWithStop, userInterrupts, eofRead, sendFailures, unsent>>
    /\ UNCHANGED termVars

\* Line 153: close() returns once the connection is closed.
main_close_return ==
    /\ MainAt("closing")
    /\ connState = "CLOSED"
    /\ mainPc' = "assert"
    /\ UNCHANGED <<recvPc, mainExc, sigPending, stop, message, recvMessage>>
    /\ UNCHANGED <<connVars, ioVars, histVars>>
    /\ UNCHANGED termVars

\* Line 155: assert close_code is not None and close_reason is not None.
main_assert ==
    /\ MainAt("assert")
    /\ IF close_code # None /\ close_reason # None
       THEN /\ mainPc' = "print"
            /\ UNCHANGED mainExc
       ELSE /\ mainPc' = "crashed"
            /\ mainExc' = "AssertionError"
    /\ UNCHANGED <<recvPc, sigPending, stop, message, recvMessage>>
    /\ UNCHANGED <<connVars, ioVars, histVars>>
    /\ UNCHANGED termVars

\* Mutant of main_print_status: the status of a normal local close is
\* rendered whatever the connection's close status is.
main_print_status_default ==
    /\ MainAt("print")
    /\ stdout' = Append(stdout, StatusLine(1000, ""))
    /\ mainPc' = "flush"
    /\ UNCHANGED <<recvPc, mainExc, sigPending, stop, message, recvMessage>>
    /\ UNCHANGED <<connVars, stderr, exitCode, histVars>>
    /\ UNCHANGED termVars

\* Lines 156-157: print_over_input(f"Connection closed: {close_status}.")
\* calls sys.stdout.write (lines 73-80).
main_print_status ==
    /\ MainAt("print")
    /\ stdout' = Append(stdout, StatusLine(close_code[1], close_reason[1]))
    /\ mainPc' = "flush"
    /\ UNCHANGED <<recvPc, mainExc, sigPending, stop, message, recvMessage>>
    /\ UNCHANGED <<connVars, stderr, exitCode, histVars>>
    /\ UNCHANGED termVars

\* Mutant of main_flush: the try block is inside the while loop, so after
\* the handler the loop reads the next line.
main_flush_loops ==
    /\ MainAt("flush")
    /\ mainPc' = "input"
    /\ UNCHANGED <<recvPc, mainExc, sigPending, stop, message, recvMessage>>
    /\ UNCHANGED <<connVars, ioVars, histVars>>
    /\ UNCHANGED termVars

\* Line 81, called from line 157: sys.stdout.flush() ends print_over_input.
main_flush ==
    /\ MainAt("flush")
    /\ mainPc' = "join"
    /\ UNCHANGED <<recvPc, mainExc, sigPending, stop, message, recvMessage>>
    /\ UNCHANGED <<connVars, ioVars, histVars>>
    /\ UNCHANGED termVars

\* Mutant of main_join: main returns without waiting for the receiver thread.
main_join_no_wait ==
    /\ MainAt("join")
    /\ mainPc' = "done"
    /\ exitCode' = Some(0)
    /\ UNCHANGED <<recvPc, mainExc, sigPending, stop, message, recvMessage>>
    /\ UNCHANGED <<connVars, stdout, stderr, histVars>>
    /\ UNCHANGED termVars

\* Line 159: thread.join() returns once the receiver thread has ended; main returns.
main_join ==
    /\ MainAt("join")
    /\ recvPc = "done"
    /\ mainPc' = "done"
    /\ exitCode' = Some(0)
    /\ UNCHANGED <<recvPc, mainExc, sigPending, stop, message, recvMessage>>
    /\ UNCHANGED <<connVars, stdout, stderr, histVars>>
    /\ UNCHANGED termVars

\* -------------------------------------------------------- receiver thread
\* Line 85: the iterator yields the next message, or ends once the connection
\* is closed and every message received was yielded; else it blocks.
print_incoming_messages_next ==
    /\ recvPc = "iter"
    /\ IF incoming = <<>> THEN connState = "CLOSED" ELSE TRUE
    /\ IF incoming # <<>>
       THEN /\ recvMessage' = Head(incoming)
            /\ incoming' = Tail(incoming)
            /\ recvPc' = "render"
       ELSE /\ recvPc' = "check_stop"
            /\ UNCHANGED <<recvMessage, incoming>>
    /\ UNCHANGED <<mainPc, mainExc, sigPending, stop, message>>
    /\ UNCHANGED <<connState, close_code, close_reason, sent, ioVars, histVars>>
    /\ UNCHANGED termVars

\* Lines 86-89: render the message above the prompt: print_during_input calls
\* sys.stdout.write (lines 53-68).
print_incoming_messages_render ==
    /\ recvPc = "render"
    /\ stdout' = Append(stdout, Rendering(recvMessage))
    /\ recvPc' = "flush"
    /\ UNCHANGED <<mainPc, mainExc, sigPending, stop, message, recvMessage>>
    /\ UNCHANGED <<connVars, stderr, exitCode, histVars>>
    /\ UNCHANGED termVars

\* Mutant of print_incoming_messages_flush: the loop is left after the first
\* message (a break at the end of its body).
print_incoming_messages_flush_breaks ==
    /\ recvPc = "flush"
    /\ recvPc' = "check_stop"
    /\ UNCHANGED <<mainPc, mainExc, sigPending, stop, message, recvMessage>>
    /\ UNCHANGED <<connVars, ioVars, histVars>>
    /\ UNCHANGED termVars

\* Line 69, called from lines 87 and 89: sys.stdout.flush() ends
\* print_during_input.
print_incoming_messages_flush ==
    /\ recvPc = "flush"
    /\ recvPc' = "iter"
    /\ UNCHANGED <<mainPc, mainExc, sigPending, stop, message, recvMessage>>
    /\ UNCHANGED <<connVars, ioVars, histVars>>
    /\ UNCHANGED termVars

\* Mutant of print_incoming_messages_check: the receiver never interrupts.
print_incoming_messages_check_silent ==
    /\ recvPc = "check_stop"
    /\ recvPc' = "done"
    /\ UNCHANGED <<mainPc, mainExc, sigPending, stop, message, recvMessage>>
    /\ UNCHANGED <<connVars, ioVars, histVars>>
    /\ UNCHANGED termVars

\* Mutant of print_incoming_messages_check: the test of the flag is inverted.
print_incoming_messages_check_inverted ==
    /\ recvPc = "check_stop"
    /\ recvPc' = IF stop THEN "kill" ELSE "done"
    /\ UNCHANGED <<mainPc, mainExc, sigPending, stop, message, recvMessage>>
    /\ UNCHANGED <<connVars, ioVars, histVars>>
    /\ UNCHANGED termVars

\* Line 90: if not stop.is_set().
print_incoming_messages_check ==
    /\ recvPc = "check_stop"
    /\ recvPc' = IF ~stop THEN "kill" ELSE "done"
    /\ UNCHANGED <<mainPc, mainExc, sigPending, stop, message, recvMessage>>
    /\ UNCHANGED <<connVars, ioVars, histVars>>
    /\ UNCHANGED termVars

\* Mutant of print_incoming_messages_kill: the receiver sets the flag itself
\* before it sends the signal.
print_incoming_messages_kill_sets_stop ==
    /\ recvPc = "kill"
    /\ stop' = TRUE
    /\ sigPending' = TRUE
    /\ kills' = kills + 1
    /\ killedWithStop' = killedWithStop + (IF stop THEN 1 ELSE 0)
    /\ recvPc' = "done"
    /\ UNCHANGED <<mainPc, mainExc, message, recvMessage>>
    /\ UNCHANGED <<connVars, ioVars>>
    /\ UNCHANGED <<linesRead, arrived, closedBy, remoteClose, closeCalls,
                   closeFoundOpen, stopSets,
                   userInterrupts, eofRead, sendFailures, unsent>>
    /\ UNCHANGED termVars

\* Lines 93-97: os.kill(os.getpid(), ctrl_c): a SIGINT for the main thread.
print_incoming_messages_kill ==
    /\ recvPc = "kill"
    /\ sigPending' = TRUE
    /\ kills' = kills + 1
    /\ killedWithStop' = killedWithStop + (IF stop THEN 1 ELSE 0)
    /\ recvPc' = "done"
    /\ UNCHANGED <<mainPc, mainExc, stop, message, recvMessage>>
    /\ UNCHANGED <<connVars, ioVars>>
    /\ UNCHANGED <<linesRead, arrived, closedBy, remoteClose, closeCalls,
                   closeFoundOpen, stopSets,
                   userInterrupts, eofRead, sendFailures, unsent>>
    /\ UNCHANGED termVars

\* ------------------------------------------------------------ environment
\* The user presses ^C during the session.
user_interrupt ==
    /\ InSession
    /\ userInterrupts < MaxUserInterrupts
    /\ sigPending' = TRUE
    /\ userInterrupts' = userInterrupts + 1
    /\ UNCHANGED <<mainPc, recvPc, mainExc, stop, message, recvMessage>>
    /\ UNCHANGED <<connVars, ioVars>>
    /\ UNCHANGED <<linesRead, arrived, closedBy, remoteClose, closeCalls,
                   closeFoundOpen, stopSets,
                   kills, killedWithStop, eofRead, sendFailures, unsent>>
    /\ UNCHANGED termVars

\* The remote sends a message; it still may while the closing handshake runs.
remote_send(m) ==
    /\ connState \in {"OPEN", "CLOSING"}
    /\ Len(arrived) < MaxMessages
    /\ DiffersFromLast(m, arrived)
    /\ incoming' = Append(incoming, m)
    /\ arrived' = Append(arrived, m)
    /\ UNCHANGED <<threadVars, connState, close_code, close_reason, sent, ioVars>>
    /\ UNCHANGED <<linesRead, closedBy, remoteClose, closeCalls,
                   closeFoundOpen, stopSets, kills,
                   killedWithStop, userInterrupts, eofRead, sendFailures, unsent>>
    /\ UNCHANGED termVars

\* The remote closes the open connection with (code, reason).
remote_close(c) ==
    /\ connState = "OPEN"
    /\ connState' = "CLOSED"
    /\ close_code' = Some(c.code)
    /\ close_reason' = Some(c.reason)
    /\ closedBy' = "remote"
    /\ remoteClose' = Some(c)
    /\ UNCHANGED <<threadVars, incoming, sent, ioVars>>
    /\ UNCHANGED <<linesRead, arrived, closeCalls, closeFoundOpen, stopSets, kills,
                   killedWithStop, userInterrupts, eofRead, sendFailures, unsent>>
    /\ UNCHANGED termVars

\* The transport fails: the connection ends with 1006 and an empty reason.
transport_failure ==
    /\ connState \in {"OPEN", "CLOSING"}
    /\ connState' = "CLOSED"
    /\ close_code' = Some(1006)
    /\ close_reason' = Some("")
    /\ closedBy' = "failure"
    /\ UNCHANGED <<threadVars, incoming, sent, ioVars>>
    /\ UNCHANGED <<linesRead, arrived, remoteClose, closeCalls,
                   closeFoundOpen, stopSets, kills,
                   killedWithStop, userInterrupts, eofRead, sendFailures, unsent>>
    /\ UNCHANGED termVars

\* The remote answers the close frame of close(): the handshake completes.
close_handshake_completes ==
    /\ connState = "CLOSING"
    /\ connState' = "CLOSED"
    /\ close_code' = Some(1000)
    /\ close_reason' = Some("")
    /\ closedBy' = "local"
    /\ UNCHANGED <<threadVars, incoming, sent, ioVars>>
    /\ UNCHANGED <<linesRead, arrived, remoteClose, closeCalls,
                   closeFoundOpen, stopSets, kills,
                   killedWithStop, userInterrupts, eofRead, sendFailures, unsent>>
    /\ UNCHANGED termVars

\* ---------------------------------------------------------- specification
MainStep ==
    \/ main_connect_ok
    \/ main_connect_fails
    \/ main_thread_start
    \/ \E line \in Lines : main_input(line)
    \/ main_input_eof
    \/ main_send
    \/ main_KeyboardInterrupt
    \/ main_stop_set
    \/ main_close_call
    \/ main_close_return
    \/ main_assert
    \/ main_print_status
    \/ main_flush
    \/ main_join

ReceiverStep ==
    \/ print_incoming_messages_next
    \/ print_incoming_messages_render
    \/ print_incoming_messages_flush
    \/ print_incoming_messages_check
    \/ print_incoming_messages_kill

EnvironmentStep ==
    \/ user_interrupt
    \/ \E m \in Messages : remote_send(m)
    \/ \E c \in RemoteCloses : remote_close(c)
    \/ transport_failure
    \/ close_handshake_completes

Next == MainStep \/ ReceiverStep \/ EnvironmentStep

Spec == Init /\ [][Next]_vars

\* Both threads keep running while they can, a pending signal handler runs,
\* connect() returns and the closing handshake completes. Nothing is assumed
\* of the user or of the remote.
Fairness ==
    /\ WF_vars(main_connect_ok \/ main_connect_fails)
    /\ WF_vars(main_thread_start)
    /\ WF_vars(main_send)
    /\ WF_vars(main_KeyboardInterrupt)
    /\ WF_vars(main_stop_set)
    /\ WF_vars(main_close_call)
    /\ WF_vars(main_close_return)
    /\ WF_vars(main_assert)
    /\ WF_vars(main_print_status)
    /\ WF_vars(main_flush)
    /\ WF_vars(main_join)
    /\ WF_vars(ReceiverStep)
    /\ WF_vars(close_handshake_completes)

LiveSpec == Init /\ [][Next]_vars /\ Fairness

\* ------------------------------------------------------ derived quantities
IsRendering(w) == w[1] = "ESC 7"
IsStatus(w) == w[1] = "CR"
\* The messages rendered so far, and the status lines written so far.
Rendered == SelectSeq(stdout, IsRendering)
StatusWrites == SelectSeq(stdout, IsStatus)
\* The termination path of lines 152-157 has run to its end.
TerminationPathDone == stop /\ closeCalls = 1 /\ Len(StatusWrites) = 1
\* A trigger of the user: ^C or end-of-input.
LocalTrigger == userInterrupts > 0 \/ eofRead
\* Both loops have returned.
Stopped == mainPc = "done" /\ recvPc = "done"

\* ------------------------------------------------------------------ claims

\* C1: whenever the input loop has invoked close() on the connection, the
\* shutdown flag is set: stop.set() has run before the call.
C1_FlagSetBeforeClose ==
    closeCalls > 0 => stop /\ stopSets > 0

C1_Witness ==
    closeCalls = 1 /\ mainPc = "closing" /\ connState = "CLOSING" /\ recvPc = "iter"

\* C2: the receiver loop never delivers an interrupt once the shutdown flag
\* has been set.
C2_NoInterruptOnceFlagSet ==
    killedWithStop = 0

\* C3: once a trigger has fired (the input loop entered its termination path,
\* or the connection was closed or failed), both loops eventually return with
\* the termination path run to completion.
C3_CleanShutdown ==
    (InSession /\ (mainPc = "stop_set" \/ connState = "CLOSED"))
        ~> (Stopped /\ TerminationPathDone)

\* C4: with no trigger of the user, a receiver loop that finds the flag unset
\* after the end of its sequence delivers an interrupt, and an input loop
\* that interrupt finds blocked in its line read sets the flag, calls close()
\* and renders the close status.
C4_RemoteCloseInterrupts ==
    /\ (recvPc = "check_stop" /\ ~stop /\ ~LocalTrigger)
           ~> (kills = 1 \/ LocalTrigger)
    /\ (kills = 1 /\ sigPending /\ mainPc = "input" /\ ~LocalTrigger)
           ~> (TerminationPathDone \/ LocalTrigger)

C4_Witness ==
    kills = 1 /\ ~LocalTrigger /\ TerminationPathDone /\ mainPc = "done"

\* C5: when the input loop's close() found the connection open, a receiver
\* loop that is past the end of its sequence sees the flag set, and neither
\* has raised nor is about to raise an interrupt.
C5_LocalCloseIsSilent ==
    (closeFoundOpen /\ recvPc \in {"check_stop", "kill", "done"})
        => (stop /\ kills = 0 /\ recvPc # "kill")

C5_Witness ==
    closeFoundOpen /\ recvPc = "done" /\ kills = 0 /\ eofRead

\* C6: after a send() that failed the input loop is on its termination path
\* (set flag, close, render status, join), as after an interrupt.
C6_SendFailureIsTerminal ==
    sendFailures > 0 =>
        mainPc \in {"stop_set", "close", "closing", "assert", "print", "flush",
                    "join", "done"}

\* C7: in every state where main has returned, the receiver thread has ended
\* (or, when connect failed, was never started).
C7_JoinBeforeReturn ==
    /\ mainPc = "done" => recvPc = "done"
    /\ mainPc = "exited" => recvPc = "not_started"

C7_Witness ==
    mainPc = "done" /\ recvPc = "done" /\ Len(Rendered) = MaxMessages

\* C8 as stated: the messages rendered are the messages arrived, in order,
\* and every line read is sent, in order, as soon as the input loop is past
\* its send.
C8_AllLinesSent ==
    /\ Rendered = MapRendering(SubSeq(arrived, 1, Len(Rendered)))
    /\ recvPc \in {"check_stop", "kill", "done"} => Len(Rendered) = Len(arrived)
    /\ mainPc # "send" => sent = linesRead

\* C8 as amended: the messages rendered are the messages arrived, each once
\* and in order; the lines sent are the lines read, unmodified and in order,
\* but for the last line read, which is not sent when send() fails on a closed
\* connection or an interrupt comes between its read and its send.
C8_ExactlyOnceInOrder ==
    /\ Rendered = MapRendering(SubSeq(arrived, 1, Len(Rendered)))
    /\ Len(Rendered) + Len(incoming) + (IF recvPc = "render" THEN 1 ELSE 0)
           = Len(arrived)
    /\ recvPc \in {"check_stop", "kill", "done"} => Len(Rendered) = Len(arrived)
    /\ IsPrefix(sent, linesRead)
    /\ Len(linesRead) - Len(sent) <= 1
    /\ (mainPc # "send" /\ unsent = "none") => sent = linesRead
    /\ unsent # "none" => Len(linesRead) = Len(sent) + 1

C8_Witness ==
    /\ recvPc = "done" /\ mainPc = "done"
    /\ Len(Rendered) = MaxMessages /\ Len(sent) = MaxLines
    /\ sent[1] # sent[2] /\ arrived[1] # arrived[2]

\* C9: the assertion of line 155 never fails: whenever the input loop is at
\* the assertion or reads the status after it, close_code and close_reason
\* are not None.
C9_StatusPopulated ==
    /\ mainExc # "AssertionError"
    /\ mainPc \in {"assert", "print"} => close_code # None /\ close_reason # None

C9_Witness ==
    mainPc = "print" /\ closedBy = "failure" /\ mainExc = "EOFError"

\* C10: when the remote closed the connection with (code, reason), the input
\* loop's close() leaves the close status as it was, and the status line
\* rendered is the one of the remote's code and reason.
C10_RemoteStatusKept ==
    (closedBy = "remote" /\ closeCalls > 0) =>
        /\ close_code = Some(remoteClose[1].code)
        /\ close_reason = Some(remoteClose[1].reason)
        /\ connState = "CLOSED"
        /\ StatusWrites \in
               {<<>>, <<StatusLine(remoteClose[1].code, remoteClose[1].reason)>>}

C10_Witness ==
    /\ closedBy = "remote" /\ mainPc = "done" /\ kills = 1
    /\ StatusWrites = <<print_over_input("Connection closed: 1000 bye.")>>

\* C11: the two loops are never inside a printer operation at once: no write
\* of print_over_input begins while print_during_input is between its write
\* and the end of its flush, nor the other way round.
C11_OutputSerialized ==
    ~(mainPc = "flush" /\ recvPc = "flush")

\* --------------------------------------- print_during_input on the terminal
\* The user has typed `line` after earlier output and the cursor is on column
\* `col` of it, on any row of the screen; rows above hold earlier output and
\* rows below are blank.
TermInit ==
    /\ ProgramInit
    /\ \E line \in TermLines, row \in 1..TermHeight, col \in 3..TermWidth + 1 :
          /\ col <= Len(line) + 1
          /\ term = [rows |-> [r \in 1..TermHeight |->
                                  IF r < row THEN PadRow(<<"#">>)
                                  ELSE IF r = row THEN PadRow(line) ELSE BlankRow],
                     row |-> row, col |-> col, saved |-> <<1, 1>>]
          /\ termHist = [line |-> line, col |-> col, texts |-> <<>>]

\* One call of print_during_input(string): its write reaches the terminal at
\* the flush.
term_print_during_input(string) ==
    /\ Len(termHist.texts) < MaxCalls
    /\ term' = TermWrite(term, print_during_input(string))
    /\ termHist' = [termHist EXCEPT !.texts = Append(@, string)]
    /\ UNCHANGED programVars

TermNext == \E string \in TermTexts : term_print_during_input(string)

TermSpec == TermInit /\ [][TermNext]_vars

\* The last text passed to print_during_input.
LastText == termHist.texts[Len(termHist.texts)]
\* The input line is intact: the cursor's row holds the characters typed, in
\* order, and the cursor is on the column it was on.
InputLineIntact ==
    /\ term.rows[term.row] = PadRow(termHist.line)
    /\ term.col = termHist.col
\* A text that takes one row of the terminal.
FitsInRow(string) ==
    /\ Len(CharsOf(string)) <= TermWidth
    /\ \A i \in 1..Len(CharsOf(string)) : CharsOf(string)[i] # "\n"

\* C12: after any number of calls of print_during_input the unsubmitted input
\* line holds the same characters in the same order and the cursor is on the
\* same column of it.
C12_InputLinePreserved ==
    termHist.texts # <<>> => InputLineIntact

\* With texts that take one row each, the input line is intact after every
\* call and the last text is on the row above it.
SingleRowTextKeepsInputLine ==
    (/\ termHist.texts # <<>>
     /\ \A i \in 1..Len(termHist.texts) : FitsInRow(termHist.texts[i]))
    => /\ InputLineIntact
       /\ term.row > 1
       /\ term.rows[term.row - 1] = PadRow(CharsOf(LastText))

\* The process has ended: main returned, or an exception left main uncaught.
MainEnded == mainPc \in {"done", "crashed"}

\* C13: print_over_input is called at most once, only after the input loop
\* has stopped reading, and every session that ends has rendered the close
\* status exactly once.
C13_StatusRenderedOnce ==
    /\ Len(StatusWrites) <= 1
    /\ StatusWrites # <<>> => mainPc \notin {"input", "send"}
    /\ MainEnded => Len(StatusWrites) = 1

\* C14: when the connect fails, the failure message is on stderr, the exit
\* code is 1, and neither the receiver thread nor the input loop has started.
C14_ConnectFailureOnStderr ==
    mainPc = "exited" =>
        /\ stderr # <<>>
        /\ stdout = <<>>
        /\ exitCode = Some(1)
        /\ recvPc = "not_started"
        /\ linesRead = <<>> /\ ~eofRead

\* C15: the flag is set at most once and never reset (it is set in every
\* state after a stop.set()), both loops have returned only with the flag set,
\* and a session that has ended has set the flag exactly once.
C15_LinearShutdown ==
    /\ stopSets <= 1
    /\ stop <=> stopSets > 0
    /\ Stopped => stop
    /\ (MainEnded /\ recvPc = "done") => stopSets = 1

\* C16: once the close status has been written it is the last write on the
\* terminal: no rendering of an incoming message comes after it.
C16_StatusIsLastOutput ==
    StatusWrites # <<>> => IsStatus(stdout[Len(stdout)])

\* A step in which the input loop calls send(): the call returns or raises.
SendCalled == sent' # sent \/ sendFailures' # sendFailures

\* C17: the input loop is never at its send() call with the flag set, and
\* every step that calls send() begins and ends with the flag unset and no
\* close() call made: all sends come before stop.set() and close().
C17_NoSendOnceFlagSet ==
    /\ [](mainPc = "send" => ~stop /\ closeCalls = 0)
    /\ [][SendCalled => ~stop /\ closeCalls = 0 /\ ~stop' /\ closeCalls' = 0]_vars

C17_Witness ==
    stop /\ closeCalls = 1 /\ Len(sent) = MaxLines /\ mainPc = "closing"

\* C18: every step of the receiver loop leaves the flag as it is and makes no
\* close() or send() call, and every step that changes the flag or calls
\* close() is a step of the input loop.
C18_SingleWriter ==
    /\ [][ReceiverStep =>
            UNCHANGED <<stop, stopSets, closeCalls, closeFoundOpen, sent, sendFailures>>]_vars
    /\ [][(stop' # stop \/ closeCalls' # closeCalls) => MainStep]_vars

C18_Witness ==
    /\ recvPc = "done" /\ kills = 1 /\ Len(Rendered) = MaxMessages
    /\ stop /\ closeCalls = 1

\* C19: the receiver sends at most one interrupt, and when it is about to
\* send it or has sent it, its sequence has ended (the connection is closed
\* and no message is left to consume) and every message that arrived has been
\* rendered, in order.
C19_InterruptAfterSequenceEnd ==
    /\ kills <= 1
    /\ kills = 1 => recvPc = "done"
    /\ (recvPc = "kill" \/ kills > 0) =>
           /\ connState = "CLOSED"
           /\ incoming = <<>>
           /\ Rendered = MapRendering(arrived)

C19_Witness ==
    kills = 1 /\ Len(arrived) = MaxMessages /\ Len(Rendered) = MaxMessages /\ sigPending
====
